---- MODULE Spec2Model ----
(***************************************************************************)
(* CameraUploadComponent (components/common/camera-uploader.tsx): the      *)
(* pending file list, the camera session and the upload flag of the React  *)
(* component, with the asynchronous callbacks (getUserMedia, setTimeout,   *)
(* canvas.toBlob, onUpload) as separate steps.  A callback reads the       *)
(* values its closure captured at the render in which it was created.      *)
(***************************************************************************)
EXTENDS Integers, Sequences, FiniteSets, Bags, TLC

(* ------------------------------ bounds --------------------------------- *)
\* maxFiles is a prop; the model draws it from 1..MaxFilesProp
MaxFilesProp == 2
\* longest batch handed to handleFiles by a drop or the file picker
MaxBatch == 2
\* previews (object URLs) created in one run
MaxHandles == 3
\* identifiers Math.random can yield (the code does not check for collisions)
NumIds == 2
\* camera streams the host hands out in one run
MaxStreams == 2
\* canvas.toBlob callbacks pending at once
MaxBlobs == 2
\* sizes handed to formatFileSize are below 1024^(MaxExp + 1)
MaxExp == 4
\* onUpload promises unsettled at once
MaxUploads == 2

(* ------------------------------ strings -------------------------------- *)
\* A string is the sequence of its characters.
endsWith(s, suf) ==
    /\ Len(suf) <= Len(s)
    /\ SubSeq(s, Len(s) - Len(suf) + 1, Len(s)) = suf

startsWith(s, pre) ==
    /\ Len(pre) <= Len(s)
    /\ SubSeq(s, 1, Len(pre)) = pre

\* String.prototype.slice(0, -1)
dropLast(s) == SubSeq(s, 1, Len(s) - 1)

\* Array.prototype.slice(0, end): a negative end counts from the end
slice0(arr, end) ==
    LET k == IF end < 0
             THEN (IF Len(arr) + end > 0 THEN Len(arr) + end ELSE 0)
             ELSE (IF end < Len(arr) THEN end ELSE Len(arr))
    IN SubSeq(arr, 1, k)

ImageAny  == <<"i","m","a","g","e","/","*">>
VideoAny  == <<"v","i","d","e","o","/","*">>
ImagePng  == <<"i","m","a","g","e","/","p","n","g">>
ImageJpeg == <<"i","m","a","g","e","/","j","p","e","g">>
VideoMp4  == <<"v","i","d","e","o","/","m","p","4">>
TextPlain == <<"t","e","x","t","/","p","l","a","i","n">>
ImagePlain == <<"i","m","a","g","e">>
NoType    == <<>>

(* ------------------------------ props ---------------------------------- *)
\* maxFileSize = 10 * 1024 * 1024 (default prop)
maxFileSize == 10485760

\* acceptedTypes the model runs with: the default, the README's, an exact one
AcceptedTypesChoices ==
    { <<ImageAny, VideoAny>>, <<ImageAny>>, <<ImagePng>> }

\* The File objects a user can hand in: [name, type, size]
Files ==
    { [name |-> "a", type |-> ImagePng,   size |-> maxFileSize],
      [name |-> "b", type |-> VideoMp4,   size |-> 1],
      [name |-> "e", type |-> NoType,     size |-> 0],
      [name |-> "p", type |-> ImagePlain, size |-> 1],
      [name |-> "o", type |-> ImagePng,   size |-> maxFileSize + 1],
      [name |-> "q", type |-> TextPlain,  size |-> maxFileSize + 1] }

\* FileList / File[] of a drop or a pick: non-empty, no file twice
Batches ==
    { b \in UNION { [1..n -> Files] : n \in 1..MaxBatch } :
        \A i, j \in DOMAIN b : i # j => b[i] # b[j] }

\* the file capturePhoto builds from the encoded blob
CaptureFile == [name |-> "camera-capture", type |-> ImageJpeg, size |-> 2]

\* the same file when the encoded blob is larger than maxFileSize
CaptureFileLarge == [CaptureFile EXCEPT !.size = maxFileSize + 1]
CaptureFiles == {CaptureFile, CaptureFileLarge}

NoStream == 0

\* A size in bytes, kept as its two leading digits in base 1024 (sizes of a
\* terabyte and more do not fit the checker's integers):
\* [exp, hi, lo] is hi * 1024^exp + lo * 1024^(exp - 1)
kBase == 1024
ZeroBytes == [exp |-> 0, hi |-> 0, lo |-> 0]
HiDigits == {1, 2, 10, 512, 1023}
LoDigits == {0, 5, 6, 128, 512, 1018, 1019, 1023}
SizeInputs ==
    {ZeroBytes}
    \cup { [exp |-> 0, hi |-> h, lo |-> 0] : h \in HiDigits }
    \cup { [exp |-> e, hi |-> h, lo |-> l] :
               e \in 1..MaxExp, h \in HiDigits, l \in LoDigits }

VARIABLES
    maxFiles,        \* prop
    acceptedTypes,   \* prop
    hasMediaDevices, \* host: navigator.mediaDevices.getUserMedia exists
    dropLimit,       \* user: the most files handed in by one drop or pick
    userFiles,       \* user: the files this user has to hand in
    streamCap,       \* host: the streams getUserMedia is asked for in one run
    mounted,         \* the component is mounted
    files,           \* useState<FileObject[]>
    showCamera,      \* useState<boolean>
    stream,          \* useState<MediaStream | null>
    isUploading,     \* useState<boolean>
    nextHandle,      \* object URLs created so far
    revoked,         \* object URL -> number of URL.revokeObjectURL calls
    nextStream,      \* streams getUserMedia has resolved with so far
    openStreams,     \* acquired streams whose tracks are not stopped
    gumPrimary,      \* getUserMedia(constraints) calls in flight
    gumFallback,     \* getUserMedia({video: true}) calls in flight
    timers,          \* streams whose setTimeout(bind, 100) is pending
    srcObject,       \* videoRef.current.srcObject (NoStream: none, or no element)
    blobs,           \* pending canvas.toBlob callbacks, each with its closure
    uploadPending,   \* the number of onUpload promises that are unsettled
    uploadArg,       \* the list the latest unsettled onUpload call was given
    bytes,           \* a size handed to formatFileSize
    sizeLabel,       \* the text formatFileSize made of it, <<>> before the call
    lastOp           \* what the last handler did: inputs, warnings, observer calls

vars == <<maxFiles, acceptedTypes, dropLimit, userFiles, streamCap, hasMediaDevices, mounted, files,
          showCamera, stream, isUploading, nextHandle, revoked, nextStream,
          openStreams, gumPrimary, gumFallback, timers, srcObject, blobs,
          uploadPending, uploadArg, bytes, sizeLabel, lastOp>>

propVars == <<maxFiles, acceptedTypes, hasMediaDevices, dropLimit, userFiles, streamCap>>
fileVars == <<files, nextHandle, revoked>>
cameraVars == <<showCamera, stream, nextStream, openStreams, gumPrimary,
                gumFallback, timers, srcObject, blobs>>
uploadVars == <<isUploading, uploadPending, uploadArg>>
sizeVars == <<bytes, sizeLabel>>

Op(op, batch, warns, changes, alert) ==
    [op |-> op, batch |-> batch, warns |-> warns, changes |-> changes,
     alert |-> alert]

\* a handler that logs nothing, alerts nothing and does not call the observer
Quiet == Op("quiet", <<>>, <<>>, <<>>, "")

InitState ==
    /\ mounted = TRUE
    /\ files = <<>>
    /\ showCamera = FALSE
    /\ stream = NoStream
    /\ isUploading = FALSE
    /\ nextHandle = 0
    /\ revoked = [h \in 1..MaxHandles |-> 0]
    /\ nextStream = 0
    /\ openStreams = {}
    /\ gumPrimary = 0
    /\ gumFallback = 0
    /\ timers = {}
    /\ srcObject = NoStream
    /\ blobs = EmptyBag
    /\ uploadPending = 0
    /\ uploadArg = <<>>
    /\ lastOp = Quiet

\* Hosts without a camera get drops of up to MaxBatch files; hosts with one
\* get single-file drops, which keeps the camera's interleavings explorable.
Init ==
    /\ maxFiles \in 1..MaxFilesProp
    /\ acceptedTypes \in AcceptedTypesChoices
    /\ hasMediaDevices \in BOOLEAN
    /\ dropLimit = IF hasMediaDevices THEN 1 ELSE MaxBatch
    /\ userFiles = Files
    /\ streamCap = MaxStreams - 1    \* overlapping sessions are explored by SpecCamera
    /\ bytes = ZeroBytes
    /\ sizeLabel = <<>>
    /\ InitState

(* ------------------------------ intake --------------------------------- *)
\* isValidFileType with the wildcard's prefix cut before the slash
isValidFileType_noSlash(file) ==
    \E k \in 1..Len(acceptedTypes) :
        LET type == acceptedTypes[k] IN
        IF endsWith(type, <<"/", "*">>)
        THEN startsWith(file.type, dropLast(dropLast(type)))
        ELSE file.type = type

isValidFileType(file) ==
    \E k \in 1..Len(acceptedTypes) :
        LET type == acceptedTypes[k] IN
        IF endsWith(type, <<"/", "*">>)
        THEN startsWith(file.type, dropLast(type))
        ELSE file.type = type

\* the size test with >= for >
tooLarge_orEqual(file) == file.size >= maxFileSize

\* the size test of the filter callback
tooLarge(file) == file.size > maxFileSize

\* fileArray.filter(...)
validFiles(fileArray) ==
    SelectSeq(fileArray, LAMBDA f : isValidFileType(f) /\ ~tooLarge(f))

\* the console.warn calls of the filter callback, in order
RECURSIVE filterWarns(_)
filterWarns(fileArray) ==
    IF fileArray = <<>> THEN <<>>
    ELSE LET f == Head(fileArray)
             w == IF ~isValidFileType(f)
                  THEN <<[kind |-> "type", name |-> f.name]>>
                  ELSE IF tooLarge(f)
                       THEN <<[kind |-> "size", name |-> f.name]>>
                       ELSE <<>>
         IN w \o filterWarns(Tail(fileArray))

\* maxFiles - files.length, files.length as the closure captured it
remainingSlots(seenLen) == maxFiles - seenLen

filesToAdd(fileArray, seenLen) ==
    slice0(validFiles(fileArray), remainingSlots(seenLen))

limitWarns(fileArray, seenLen) ==
    IF Len(filesToAdd(fileArray, seenLen)) < Len(validFiles(fileArray))
    THEN <<[kind |-> "limit", name |-> ""]>>
    ELSE <<>>

\* filesToAdd.map(file => ({file, id, preview, name, size, type}))
fileObjects(toAdd, ids, base) ==
    [k \in 1..Len(toAdd) |->
        [file |-> toAdd[k], id |-> ids[k], preview |-> base + k,
         name |-> toAdd[k].name, size |-> toAdd[k].size, type |-> toAdd[k].type]]

\* the setFiles updater of handleFiles: [...prev, ...fileObjects]
appendUpdater(prev, objs) == prev \o objs

\* an updater that does not call the observer
observerCalls_none(updatedFiles) == <<>>

\* onFilesChange?.(updatedFiles) in an updater: the observer's calls, in order
observerCalls(updatedFiles) == <<updatedFiles>>

\* handleFiles(newFiles), run by a closure that captured files.length = seenLen
handleFiles(newFiles, seenLen, op) ==
    LET toAdd == filesToAdd(newFiles, seenLen)
        warns == filterWarns(newFiles) \o limitWarns(newFiles, seenLen)
    IN /\ nextHandle + Len(toAdd) <= MaxHandles
       /\ \E ids \in [1..Len(toAdd) -> 1..NumIds] :
            LET objs == fileObjects(toAdd, ids, nextHandle)
                updatedFiles == appendUpdater(files, objs)
            IN /\ nextHandle' = nextHandle + Len(toAdd)
               /\ IF mounted
                  THEN /\ files' = updatedFiles
                       /\ lastOp' = Op(op, newFiles, warns, observerCalls(updatedFiles), "")
                  ELSE /\ files' = files
                       /\ lastOp' = Op(op, newFiles, warns, <<>>, "")
       /\ UNCHANGED revoked

handleDrop ==
    /\ mounted
    /\ \E droppedFiles \in Batches :
         /\ Len(droppedFiles) <= dropLimit
         /\ \A i \in DOMAIN droppedFiles : droppedFiles[i] \in userFiles
         /\ handleFiles(droppedFiles, Len(files), "accept")
    /\ UNCHANGED <<propVars, sizeVars, mounted, cameraVars, uploadVars>>

handleFileInput ==
    /\ mounted
    /\ \E picked \in Batches :
         /\ Len(picked) <= dropLimit
         /\ \A i \in DOMAIN picked : picked[i] \in userFiles
         /\ handleFiles(picked, Len(files), "accept")
    /\ UNCHANGED <<propVars, sizeVars, mounted, cameraVars, uploadVars>>

\* prev.find(f => f.id === id): index of the first match, 0 if none
RECURSIVE findIndex(_, _, _)
findIndex(prev, id, k) ==
    IF k > Len(prev) THEN 0
    ELSE IF prev[k].id = id THEN k ELSE findIndex(prev, id, k + 1)

\* prev.filter(f => f.id === id): the filter with its test inverted
withoutId_sameId(prev, id) == SelectSeq(prev, LAMBDA f : f.id = id)

\* prev.filter(f => f.id !== id)
withoutId(prev, id) == SelectSeq(prev, LAMBDA f : f.id # id)

\* removeFile behind a button that stays enabled during an upload
removeFile_anytime(id) ==
    LET k == findIndex(files, id, 1)
        updatedFiles == withoutId(files, id)
    IN /\ mounted
       /\ revoked' = IF k # 0
                     THEN [revoked EXCEPT ![files[k].preview] = @ + 1]
                     ELSE revoked
       /\ files' = updatedFiles
       /\ lastOp' = Op("remove", <<>>, <<>>, observerCalls(updatedFiles), "")
       /\ UNCHANGED <<propVars, sizeVars, mounted, nextHandle, cameraVars, uploadVars>>

removeFile(id) ==
    LET k == findIndex(files, id, 1)
        updatedFiles == withoutId(files, id)
    IN /\ mounted
       /\ ~isUploading
       /\ revoked' = IF k # 0
                     THEN [revoked EXCEPT ![files[k].preview] = @ + 1]
                     ELSE revoked
       /\ files' = updatedFiles
       /\ lastOp' = Op("remove", <<>>, <<>>, observerCalls(updatedFiles), "")
       /\ UNCHANGED <<propVars, sizeVars, mounted, nextHandle, cameraVars, uploadVars>>

(* ------------------------------ camera --------------------------------- *)
\* the alerts of startCamera's catch block, by error.name
GumErrors == {"NotAllowedError", "NotFoundError", "NotSupportedError",
              "OverconstrainedError", "OtherError", "NotAnError"}

alertFor(name) ==
    CASE name = "NotAllowedError"   -> "Camera access denied"
      [] name = "NotFoundError"     -> "No camera found"
      [] name = "NotSupportedError" -> "Camera is not supported on this device"
      [] name = "OverconstrainedError" -> ""
      [] name = "OtherError"        -> "Camera error"
      [] OTHER                      -> "Unable to access camera"

\* startCamera that opens the modal before it looks for the capability
startCamera_showFirst ==
    /\ mounted
    /\ Len(files) < maxFiles
    /\ showCamera' = TRUE
    /\ IF ~hasMediaDevices
       THEN /\ lastOp' = Op("start", <<>>, <<>>, <<>>, "Camera access is not supported")
            /\ UNCHANGED gumPrimary
       ELSE /\ gumPrimary + gumFallback + nextStream < streamCap
            /\ gumPrimary' = gumPrimary + 1
            /\ lastOp' = Quiet
    /\ UNCHANGED <<propVars, sizeVars, mounted, fileVars, stream, nextStream, openStreams,
                   gumFallback, timers, srcObject, blobs, uploadVars>>

\* startCamera up to its first await
startCamera ==
    /\ mounted
    /\ Len(files) < maxFiles          \* the Take Photo button is enabled
    /\ IF ~hasMediaDevices
       THEN /\ lastOp' = Op("start", <<>>, <<>>, <<>>, "Camera access is not supported")
            /\ UNCHANGED <<showCamera, gumPrimary>>
       ELSE /\ gumPrimary + gumFallback + nextStream < streamCap
            /\ showCamera' = TRUE
            /\ gumPrimary' = gumPrimary + 1
            /\ lastOp' = Quiet
    /\ UNCHANGED <<propVars, sizeVars, mounted, fileVars, stream, nextStream, openStreams,
                   gumFallback, timers, srcObject, blobs, uploadVars>>

\* getUserMedia(constraints) resolves: setStream(mediaStream); setTimeout(bind, 100)
gumResolve ==
    /\ gumPrimary > 0
    /\ gumPrimary' = gumPrimary - 1
    /\ nextStream' = nextStream + 1
    /\ openStreams' = openStreams \cup {nextStream + 1}
    /\ timers' = timers \cup {nextStream + 1}
    /\ stream' = IF mounted THEN nextStream + 1 ELSE stream
    /\ lastOp' = Quiet
    /\ UNCHANGED <<propVars, sizeVars, mounted, fileVars, showCamera, gumFallback,
                   srcObject, blobs, uploadVars>>

\* getUserMedia(constraints) rejects: the catch block up to its await, if any
gumReject(name) ==
    /\ gumPrimary > 0
    /\ gumPrimary' = gumPrimary - 1
    /\ showCamera' = IF mounted THEN FALSE ELSE showCamera
    /\ srcObject' = IF mounted THEN NoStream ELSE srcObject
    /\ gumFallback' = IF name = "OverconstrainedError"
                      THEN gumFallback + 1 ELSE gumFallback
    /\ lastOp' = Op("gumReject", <<>>, <<>>, <<>>, alertFor(name))
    /\ UNCHANGED <<propVars, sizeVars, mounted, fileVars, stream, nextStream, openStreams,
                   timers, blobs, uploadVars>>

\* getUserMedia({video: true}) resolves: setStream; setShowCamera(true); setTimeout
fallbackResolve ==
    /\ gumFallback > 0
    /\ gumFallback' = gumFallback - 1
    /\ nextStream' = nextStream + 1
    /\ openStreams' = openStreams \cup {nextStream + 1}
    /\ timers' = timers \cup {nextStream + 1}
    /\ stream' = IF mounted THEN nextStream + 1 ELSE stream
    /\ showCamera' = IF mounted THEN TRUE ELSE showCamera
    /\ lastOp' = Quiet
    /\ UNCHANGED <<propVars, sizeVars, mounted, fileVars, gumPrimary, srcObject, blobs,
                   uploadVars>>

\* getUserMedia({video: true}) rejects
fallbackReject ==
    /\ gumFallback > 0
    /\ gumFallback' = gumFallback - 1
    /\ lastOp' = Op("fallbackReject", <<>>, <<>>, <<>>,
                    "Unable to access camera with any settings")
    /\ UNCHANGED <<propVars, sizeVars, mounted, fileVars, showCamera, stream, nextStream,
                   openStreams, gumPrimary, timers, srcObject, blobs, uploadVars>>

\* the setTimeout callback: bind the stream if the video element exists
bindTimer(s) ==
    /\ s \in timers
    /\ timers' = timers \ {s}
    /\ srcObject' = IF mounted /\ showCamera THEN s ELSE srcObject
    /\ lastOp' = Quiet
    /\ UNCHANGED <<propVars, sizeVars, mounted, fileVars, showCamera, stream, nextStream,
                   openStreams, gumPrimary, gumFallback, blobs, uploadVars>>

\* the effect of stopCamera, run by a closure that captured stream = seenStream
stoppedBy(seenStream) ==
    IF seenStream # NoStream THEN openStreams \ {seenStream} ELSE openStreams

\* stopCamera without its setStream(null)
streamAfterStop_kept(seenStream) == stream

streamAfterStop(seenStream) ==
    IF seenStream # NoStream /\ mounted THEN NoStream ELSE stream

\* the X and Cancel buttons of the modal
stopCamera ==
    /\ mounted
    /\ showCamera
    /\ openStreams' = stoppedBy(stream)
    /\ stream' = streamAfterStop(stream)
    /\ showCamera' = FALSE
    /\ srcObject' = NoStream
    /\ lastOp' = Quiet
    /\ UNCHANGED <<propVars, sizeVars, mounted, fileVars, nextStream, gumPrimary,
                   gumFallback, timers, blobs, uploadVars>>

\* capturePhoto that alerts on a frame without dimensions and encodes it anyway
capturePhoto_noReturn(outcome) ==
    /\ mounted
    /\ showCamera
    /\ stream # NoStream
    /\ outcome = "toBlob" => srcObject # NoStream
    /\ CASE outcome = "noContext" ->
              /\ lastOp' = Op("capture", <<>>, <<>>, <<>>, "Canvas not supported")
              /\ UNCHANGED blobs
         [] OTHER ->
              /\ BagCardinality(blobs) < MaxBlobs
              /\ blobs' = blobs (+) SetToBag({[seenLen |-> Len(files),
                                               seenStream |-> stream]})
              /\ lastOp' = IF outcome = "noFrame"
                            THEN Op("capture", <<>>, <<>>, <<>>, "Camera not ready yet")
                            ELSE Quiet
    /\ UNCHANGED <<propVars, sizeVars, mounted, fileVars, showCamera, stream, nextStream,
                   openStreams, gumPrimary, gumFallback, timers, srcObject,
                   uploadVars>>

\* capturePhoto up to canvas.toBlob; outcome is what the host gives it
capturePhoto(outcome) ==
    /\ mounted
    /\ showCamera
    /\ stream # NoStream              \* the Capture Photo button is enabled
    \* a video without a source has no dimensions; one bound to a stream,
    \* live or stopped, has a frame or not as the host decides
    /\ outcome = "toBlob" => srcObject # NoStream
    /\ CASE outcome = "noContext" ->
              /\ lastOp' = Op("capture", <<>>, <<>>, <<>>, "Canvas not supported")
              /\ UNCHANGED blobs
         [] outcome = "noFrame" ->
              /\ lastOp' = Op("capture", <<>>, <<>>, <<>>, "Camera not ready yet")
              /\ UNCHANGED blobs
         [] OTHER ->
              /\ BagCardinality(blobs) < MaxBlobs
              /\ blobs' = blobs (+) SetToBag({[seenLen |-> Len(files),
                                               seenStream |-> stream]})
              /\ lastOp' = Quiet
    /\ UNCHANGED <<propVars, sizeVars, mounted, fileVars, showCamera, stream, nextStream,
                   openStreams, gumPrimary, gumFallback, timers, srcObject,
                   uploadVars>>

\* the toBlob callback with a blob, without the call of stopCamera
blobCallback_noStop(c) ==
    /\ BagIn(c, blobs)
    /\ blobs' = blobs (-) SetToBag({c})
    /\ \E file \in CaptureFiles : handleFiles(<<file>>, c.seenLen, "captured")
    /\ UNCHANGED <<propVars, sizeVars, mounted, showCamera, stream, openStreams, srcObject,
                   nextStream, gumPrimary, gumFallback, timers, uploadVars>>

\* the toBlob callback with a blob: handleFiles([file]); stopCamera()
blobCallback(c) ==
    /\ BagIn(c, blobs)
    /\ blobs' = blobs (-) SetToBag({c})
    /\ \E file \in CaptureFiles : handleFiles(<<file>>, c.seenLen, "captured")
    /\ openStreams' = stoppedBy(c.seenStream)
    /\ stream' = streamAfterStop(c.seenStream)
    /\ showCamera' = IF mounted THEN FALSE ELSE showCamera
    /\ srcObject' = IF mounted THEN NoStream ELSE srcObject
    /\ UNCHANGED <<propVars, sizeVars, mounted, nextStream, gumPrimary, gumFallback,
                   timers, uploadVars>>

\* the toBlob callback without a blob
blobFailed(c) ==
    /\ BagIn(c, blobs)
    /\ blobs' = blobs (-) SetToBag({c})
    /\ lastOp' = Op("blobFailed", <<>>, <<>>, <<>>, "Failed to capture photo")
    /\ UNCHANGED <<propVars, sizeVars, mounted, fileVars, showCamera, stream, nextStream,
                   openStreams, gumPrimary, gumFallback, timers, srcObject,
                   uploadVars>>

(* ------------------------------ upload --------------------------------- *)
\* handleUpload without its test for an empty list
handleUpload_noEmptyCheck(how) ==
    /\ mounted
    /\ ~isUploading
    /\ CASE how = "pending" ->
              /\ uploadPending < MaxUploads
              /\ isUploading' = TRUE
              /\ uploadPending' = uploadPending + 1
              /\ uploadArg' = files
              /\ lastOp' = Quiet
         [] how = "throws" ->
              /\ lastOp' = Op("upload", <<>>, <<>>, <<>>, "Upload failed")
              /\ UNCHANGED uploadVars
         [] OTHER ->
              /\ lastOp' = Op("upload", <<>>, <<>>, <<>>, "Ready to upload")
              /\ UNCHANGED uploadVars
    /\ UNCHANGED <<propVars, sizeVars, mounted, fileVars, cameraVars>>

\* handleUpload up to its await; how says what onUpload is and does. The
\* Upload button is disabled while isUploading; with an empty list it is not
\* there to click, and a call made all the same returns at once.
handleUpload(how) ==
    /\ mounted
    /\ ~isUploading
    /\ IF Len(files) = 0
       THEN /\ lastOp' = Op("upload", <<>>, <<>>, <<>>, "")
            /\ UNCHANGED uploadVars
       ELSE CASE how = "pending" ->
              /\ uploadPending < MaxUploads
              /\ isUploading' = TRUE
              /\ uploadPending' = uploadPending + 1
              /\ uploadArg' = files
              /\ lastOp' = Quiet
         [] how = "throws" ->
              /\ lastOp' = Op("upload", <<>>, <<>>, <<>>, "Upload failed")
              /\ UNCHANGED uploadVars
         [] OTHER ->                     \* no onUpload prop
              /\ lastOp' = Op("upload", <<>>, <<>>, <<>>, "Ready to upload")
              /\ UNCHANGED uploadVars
    /\ UNCHANGED <<propVars, sizeVars, mounted, fileVars, cameraVars>>

\* the onUpload promise settles, with the failure path leaving the flag set
uploadSettled_noFinally(ok) ==
    /\ uploadPending > 0
    /\ uploadPending' = uploadPending - 1
    /\ uploadArg' = IF uploadPending = 1 THEN <<>> ELSE uploadArg
    /\ isUploading' = IF mounted /\ ok THEN FALSE ELSE isUploading
    /\ lastOp' = IF ok THEN Quiet
                  ELSE Op("uploadSettled", <<>>, <<>>, <<>>, "Upload failed")
    /\ UNCHANGED <<propVars, sizeVars, mounted, fileVars, cameraVars>>

\* the onUpload promise settles: catch (if rejected) and finally
uploadSettled(ok) ==
    /\ uploadPending > 0
    /\ uploadPending' = uploadPending - 1
    /\ uploadArg' = IF uploadPending = 1 THEN <<>> ELSE uploadArg
    /\ isUploading' = IF mounted THEN FALSE ELSE isUploading
    /\ lastOp' = IF ok THEN Quiet
                  ELSE Op("uploadSettled", <<>>, <<>>, <<>>, "Upload failed")
    /\ UNCHANGED <<propVars, sizeVars, mounted, fileVars, cameraVars>>

(* ------------------------------ size labels ---------------------------- *)
\* Number.prototype.toString of a non-negative integer
DigitChars == <<"0", "1", "2", "3", "4", "5", "6", "7", "8", "9">>

RECURSIVE decimal(_)
decimal(n) ==
    IF n < 10 THEN <<DigitChars[n + 1]>>
    ELSE decimal(n \div 10) \o <<DigitChars[(n % 10) + 1]>>

\* parseFloat(x.toFixed(2)) + '' for x given in hundredths: the shortest
\* decimal text, without trailing zeros
hundredthsText(h) ==
    decimal(h \div 100)
    \o (IF h % 100 = 0 THEN <<>>
        ELSE <<".", DigitChars[((h % 100) \div 10) + 1]>>
             \o (IF h % 10 = 0 THEN <<>> ELSE <<DigitChars[(h % 10) + 1]>>))

\* (bytes / Math.pow(k, i)).toFixed(2) for i = b.exp, in hundredths: hi + lo/k
\* rounded to two decimals, a tie going up
toFixed2(b) == b.hi * 100 + ((b.lo * 200 + kBase) \div (2 * kBase))

\* Math.floor(Math.log(bytes) / Math.log(k)): the position of the leading digit
floorLog(b) == b.exp

sizes == << <<"B", "y", "t", "e", "s">>, <<"K", "B">>, <<"M", "B">>, <<"G", "B">> >>

\* sizes[i] of a zero-based index, and what an index outside the array gives
\* when it is concatenated to a string
sizesAt(i) ==
    IF i + 1 \in DOMAIN sizes THEN sizes[i + 1]
    ELSE <<"u", "n", "d", "e", "f", "i", "n", "e", "d">>

formatFileSize(b) ==
    IF b = ZeroBytes THEN <<"0", " ">> \o sizes[1]
    ELSE hundredthsText(toFixed2(b)) \o <<" ">> \o sizesAt(floorLog(b))

\* a size label is rendered
renderSize ==
    /\ sizeLabel = <<>>
    /\ sizeLabel' = formatFileSize(bytes)
    /\ UNCHANGED <<bytes, propVars, mounted, fileVars, cameraVars, uploadVars, lastOp>>

(* ------------------------------ teardown ------------------------------- *)
\* what the cleanup closure of useEffect(..., []) captured: the first render
cleanupFiles == <<>>
cleanupStream == NoStream

RECURSIVE revokeAll(_, _)
revokeAll(r, list) ==
    IF list = <<>> THEN r
    ELSE revokeAll([r EXCEPT ![Head(list).preview] = @ + 1], Tail(list))

unmount ==
    /\ mounted
    /\ mounted' = FALSE
    /\ revoked' = revokeAll(revoked, cleanupFiles)
    /\ openStreams' = stoppedBy(cleanupStream)
    /\ srcObject' = NoStream
    /\ lastOp' = Quiet
    /\ UNCHANGED <<propVars, sizeVars, files, nextHandle, showCamera, stream, nextStream,
                   gumPrimary, gumFallback, timers, blobs, uploadVars>>

Next ==
    \/ handleDrop
    \/ handleFileInput
    \/ \E k \in DOMAIN files : removeFile(files[k].id)   \* one button per entry
    \/ startCamera
    \/ gumResolve
    \/ \E name \in GumErrors : gumReject(name)
    \/ fallbackResolve
    \/ fallbackReject
    \/ \E s \in 1..MaxStreams : bindTimer(s)
    \/ stopCamera
    \/ \E outcome \in {"noContext", "noFrame", "toBlob"} : capturePhoto(outcome)
    \/ \E c \in BagToSet(blobs) : blobCallback(c)
    \/ \E c \in BagToSet(blobs) : blobFailed(c)
    \/ \E how \in {"pending", "throws", "default"} : handleUpload(how)
    \/ \E ok \in BOOLEAN : uploadSettled(ok)
    \/ unmount

Spec == Init /\ [][Next]_vars

\* overlapping camera sessions: a host that is asked for MaxStreams streams,
\* and a user who has one file to hand in besides the photos
InitCamera ==
    /\ maxFiles = MaxFilesProp
    /\ acceptedTypes = <<ImageAny, VideoAny>>
    /\ hasMediaDevices \in BOOLEAN
    /\ dropLimit = 1
    /\ userFiles = {[name |-> "b", type |-> VideoMp4, size |-> 1]}
    /\ streamCap = MaxStreams
    /\ bytes = ZeroBytes
    /\ sizeLabel = <<>>
    /\ InitState

SpecCamera == InitCamera /\ [][Next]_vars

\* removeFile on its own: the function applied to any identifier, whether or
\* not an entry (and so a remove button) carries it, on the pending sets that
\* drops build
InitRemove ==
    /\ maxFiles = MaxFilesProp
    /\ acceptedTypes = <<ImageAny, VideoAny>>
    /\ hasMediaDevices = FALSE
    /\ dropLimit = MaxBatch
    /\ userFiles = Files
    /\ streamCap = MaxStreams - 1
    /\ bytes = ZeroBytes
    /\ sizeLabel = <<>>
    /\ InitState

NextRemove ==
    \/ handleDrop
    \/ \E id \in 1..NumIds : removeFile(id)

SpecRemove == InitRemove /\ [][NextRemove]_vars

\* formatFileSize on its own: the component as constructed, one size to format
InitFormat ==
    /\ maxFiles = MaxFilesProp
    /\ acceptedTypes = <<ImageAny, VideoAny>>
    /\ hasMediaDevices = TRUE
    /\ dropLimit = 1
    /\ userFiles = Files
    /\ streamCap = MaxStreams - 1
    /\ bytes \in SizeInputs
    /\ sizeLabel = <<>>
    /\ InitState

NextFormat == renderSize

SpecFormat == InitFormat /\ [][NextFormat]_vars

(* ------------------------------ properties ----------------------------- *)
\* the handlers that end in handleFiles: a drop or pick, a delivered capture
AcceptOps == {"accept", "captured"}

\* the session shows a live stream
Live == showCamera /\ stream # NoStream

\* C1: in every reachable state the pending set holds at most maxFiles entries.
C1_PendingWithinMax == Len(files) <= maxFiles

\* C2: an acquisition that resolves after the session was cancelled (the modal
\* is closed while the getUserMedia call is still in flight) has its stream
\* stopped at once: not retained, not open, and the session stays inactive.
C2_LateStreamStopped ==
    [][ (mounted /\ gumPrimary > 0 /\ ~showCamera /\ nextStream' = nextStream + 1)
          => /\ stream' = NoStream
             /\ (nextStream + 1) \notin openStreams'
             /\ ~showCamera'
             /\ srcObject' = NoStream ]_vars

\* C3: while the component is mounted and the session is not Live, no stream
\* is retained and no acquired stream has live tracks.
C3_NoStreamUnlessLive ==
    (mounted /\ ~Live) => (stream = NoStream /\ openStreams = {})

\* C4: no preview handle is released twice, and after teardown every handle
\* that was allocated has been released exactly once.
C4_HandlesReleasedOnce ==
    /\ \A h \in 1..nextHandle : revoked[h] <= 1
    /\ ~mounted => \A h \in 1..nextHandle : revoked[h] = 1

\* C5: after teardown no camera stream has live tracks.
C5_NoOpenStreamAfterTeardown == ~mounted => openStreams = {}

\* the matching rule of the contract: a pattern matches a type it equals, and a
\* pattern 'category/*' matches every type that begins with 'category/'
IsWildcard(p) == Len(p) >= 2 /\ p[Len(p) - 1] = "/" /\ p[Len(p)] = "*"

PatternMatches(p, t) ==
    \/ p = t
    \/ /\ IsWildcard(p)
       /\ Len(t) >= Len(p) - 1
       /\ \A j \in 1..(Len(p) - 1) : t[j] = p[j]

TypeAccepted(t) == \E k \in DOMAIN acceptedTypes : PatternMatches(acceptedTypes[k], t)

Warned(kind, f) == \E w \in DOMAIN lastOp.warns :
                       lastOp.warns[w] = [kind |-> kind, name |-> f.name]

\* C6: no pending entry holds a file whose type matches no accepted pattern,
\* and a call of handleFiles reports a type rejection for every such file of
\* its batch (the empty type included).
C6_UnmatchedTypeRejected ==
    /\ \A k \in DOMAIN files : TypeAccepted(files[k].file.type)
    /\ lastOp.op \in AcceptOps =>
         \A i \in DOMAIN lastOp.batch :
            ~TypeAccepted(lastOp.batch[i].type) => Warned("type", lastOp.batch[i])

\* C6 witness: a drop of two files, the first with an empty type, was handled:
\* the first was rejected for its type and the second was added.
C6_Witness ==
    /\ lastOp.op = "accept"
    /\ Len(lastOp.batch) = 2
    /\ lastOp.batch[1].type = NoType
    /\ Warned("type", lastOp.batch[1])
    /\ Len(files) = 1
    /\ files[1].file = lastOp.batch[2]

\* C7 as stated: no pending entry is larger than maxFileSize, every file of a
\* batch that is larger is reported as a size rejection, and a file of exactly
\* maxFileSize is not.
C7_OversizeReported ==
    /\ \A k \in DOMAIN files : files[k].file.size <= maxFileSize
    /\ lastOp.op \in AcceptOps =>
         \A i \in DOMAIN lastOp.batch :
            /\ lastOp.batch[i].size > maxFileSize => Warned("size", lastOp.batch[i])
            /\ lastOp.batch[i].size = maxFileSize => ~Warned("size", lastOp.batch[i])

\* C7 amended: no pending entry is larger than maxFileSize; a larger file is
\* reported as a size rejection when its type is accepted and as a type
\* rejection only when it is not; a file of exactly maxFileSize is never
\* reported as a size rejection.
C7_OversizeRejected ==
    /\ \A k \in DOMAIN files : files[k].file.size <= maxFileSize
    /\ lastOp.op \in AcceptOps =>
         \A i \in DOMAIN lastOp.batch :
            LET f == lastOp.batch[i] IN
            /\ (f.size > maxFileSize /\ TypeAccepted(f.type)) => Warned("size", f)
            /\ (f.size > maxFileSize /\ ~TypeAccepted(f.type)) =>
                   (Warned("type", f) /\ ~Warned("size", f))
            /\ f.size = maxFileSize => ~Warned("size", f)

\* C7 witness: a drop of an oversized file of an accepted type and of a file of
\* exactly maxFileSize was handled: the first rejected for size, the second added.
C7_Witness ==
    /\ lastOp.op = "accept"
    /\ Len(lastOp.batch) = 2
    /\ lastOp.batch[1].size > maxFileSize
    /\ Warned("size", lastOp.batch[1])
    /\ lastOp.batch[2].size = maxFileSize
    /\ Len(files) = 1
    /\ files[1].file = lastOp.batch[2]

\* the files of a batch that pass the type and the size check, in batch order
ContractValid(batch) ==
    SelectSeq(batch, LAMBDA f : TypeAccepted(f.type) /\ f.size <= maxFileSize)

Min(a, b) == IF a < b THEN a ELSE b

\* C8: a call of handleFiles leaves the prior entries in place and appends the
\* first min(maxFiles - pending count, number of valid files) valid files of
\* the batch in batch order; a count-limit rejection is reported exactly when
\* a valid file is dropped.
C8_AppendsFirstValid ==
    [][ (mounted /\ lastOp'.op \in AcceptOps) =>
          LET valid == ContractValid(lastOp'.batch)
              slots == maxFiles - Len(files)
              n     == IF Min(slots, Len(valid)) > 0 THEN Min(slots, Len(valid)) ELSE 0
          IN /\ Len(files') = Len(files) + n
             /\ SubSeq(files', 1, Len(files)) = files
             /\ \A i \in 1..n : files'[Len(files) + i].file = valid[i]
             /\ (\E w \in DOMAIN lastOp'.warns : lastOp'.warns[w].kind = "limit")
                   <=> (n < Len(valid)) ]_vars

\* C9: a call of handleFiles that adds no entry leaves the pending set as it
\* was and does not call onFilesChange.
C9_NoChangeNoNotify ==
    [][ (mounted /\ lastOp'.op \in AcceptOps /\ Len(files') = Len(files)) =>
          (files' = files /\ lastOp'.changes = <<>>) ]_vars

\* C10: a call of handleFiles that adds an entry, and a call of removeFile that
\* deletes one, calls onFilesChange exactly once, with the pending set as it is
\* right after the call.
C10_NotifiedOncePerMutation ==
    [][ (lastOp'.op \in AcceptOps \cup {"remove"} /\ files' # files) =>
          lastOp'.changes = <<files'>> ]_vars

\* C10 witness: removeFile deleted one of two entries and released its preview.
C10_Witness ==
    /\ lastOp.op = "remove"
    /\ Len(files) = 1
    /\ nextHandle = 2
    /\ \E h \in 1..nextHandle : revoked[h] = 1
    /\ lastOp.changes = <<files>>

\* C11: a call of removeFile with an identifier that no pending entry has is a
\* no-op: the pending set stays as it was, no preview handle is released and
\* onFilesChange is not called (so a second removeFile of the same identifier
\* adds nothing to the first).
C11_RemoveAbsentIsNoOp ==
    [][ (lastOp'.op = "remove" /\ Len(files') = Len(files)) =>
          (files' = files /\ revoked' = revoked /\ lastOp'.changes = <<>>) ]_vars

\* C12: no two pending entries have the same identifier and no two own the same
\* preview handle, so a call of removeFile that deletes anything deletes exactly
\* one entry and releases exactly the handle of that entry.
C12_UniqueIdsAndHandles ==
    /\ [](\A i, j \in DOMAIN files :
            i # j => (files[i].id # files[j].id /\ files[i].preview # files[j].preview))
    /\ [][ (lastOp'.op = "remove" /\ files' # files) =>
            \E k \in DOMAIN files :
               /\ files' = SubSeq(files, 1, k - 1) \o SubSeq(files, k + 1, Len(files))
               /\ revoked' = [revoked EXCEPT ![files[k].preview] = @ + 1] ]_vars

\* a step in which a failure of onUpload is handled: a synchronous throw inside
\* handleUpload, or the rejection of the promise it awaits
UploadFails ==
    lastOp'.alert = "Upload failed" /\ (uploadPending' < uploadPending \/ lastOp'.op = "upload")

\* the pending set at the time the failing upload was triggered
TriggeredWith == IF uploadPending > 0 THEN uploadArg ELSE files

\* C13 as stated: when onUpload throws or rejects, the failure is reported, the
\* pending set is exactly what it was before the upload was triggered, no new
\* onUpload call is made and the uploading flag is false again.
C13_FailureRestoresSet ==
    [][ (mounted /\ UploadFails) =>
          /\ files' = TriggeredWith
          /\ uploadPending' = 0
          /\ ~isUploading' ]_vars

\* C13 amended: when onUpload throws or rejects, the failure is reported and
\* handling it changes nothing in the pending set, which still begins with the
\* entries it had when the upload was triggered, followed by whatever was
\* accepted while the upload was in flight; no new onUpload call is made and
\* the uploading flag is false again.
C13_FailureKeepsSet ==
    [][ (mounted /\ UploadFails) =>
          /\ files' = files
          /\ Len(TriggeredWith) <= Len(files)
          /\ SubSeq(files, 1, Len(TriggeredWith)) = TriggeredWith
          /\ uploadPending' = 0
          /\ ~isUploading' ]_vars

\* C13 witness: a rejected onUpload was handled while the component was mounted:
\* the entry is still pending and the upload button is enabled again.
C13_Witness ==
    /\ mounted
    /\ lastOp.op = "uploadSettled"
    /\ lastOp.alert = "Upload failed"
    /\ Len(files) >= 1
    /\ ~isUploading
    /\ uploadPending = 0

\* C14: a capture request made while the frame has no width or height, or
\* while no 2d drawing context can be had, produces no file: no encoding is
\* started, the pending set and the preview handles stay as they were,
\* onFilesChange is not called, and the session stays Live with its stream
\* retained and open.
C14_NotReadyCaptureIsInert ==
    [][ lastOp'.op = "capture" =>
          /\ lastOp'.alert \in {"Camera not ready yet", "Canvas not supported"}
          /\ blobs' = blobs
          /\ files' = files
          /\ nextHandle' = nextHandle /\ revoked' = revoked
          /\ lastOp'.changes = <<>>
          /\ showCamera /\ showCamera'
          /\ stream # NoStream /\ stream' = stream
          /\ openStreams' = openStreams
          /\ stream' \in openStreams' ]_vars

\* C14 witness: a capture was refused for a frame without dimensions while an
\* entry was pending; the session is still Live and its stream is open.
C14_Witness ==
    /\ lastOp.op = "capture"
    /\ lastOp.alert = "Camera not ready yet"
    /\ Len(files) = 1
    /\ showCamera
    /\ stream # NoStream
    /\ stream \in openStreams

\* the size [exp, hi, lo] stands for, in units of 1024^i (for i <= exp - 1)
RECURSIVE Pow(_, _)
Pow(b, n) == IF n = 0 THEN 1 ELSE b * Pow(b, n - 1)

\* the label of the contract: the unit index is floor(log_1024 bytes), at most
\* the last index of the table; the mantissa is bytes / 1024^index rounded to
\* two decimals
ContractLabel(b) ==
    IF b = ZeroBytes THEN <<"0", " ", "B", "y", "t", "e", "s">>
    ELSE IF b.exp <= Len(sizes) - 1
         THEN hundredthsText(toFixed2(b)) \o <<" ">> \o sizes[b.exp + 1]
         ELSE LET over == b.exp - (Len(sizes) - 1)
              IN hundredthsText(100 * (b.hi * Pow(kBase, over)
                                       + b.lo * Pow(kBase, over - 1)))
                 \o <<" ">> \o sizes[Len(sizes)]

\* C15: formatFileSize(0) is "0 Bytes"; for a size of one byte or more the
\* unit is the table entry at floor(log_1024 bytes), clamped to the table (so
\* a size of 1024^4 or more is still given in GB), and the mantissa is the
\* size over 1024^index rounded to two decimals; 1024 gives "1 KB", 1536
\* gives "1.5 KB" and 10 * 1024 * 1024 gives "10 MB".
C15_SizeLabelClamped ==
    sizeLabel # <<>> =>
       /\ sizeLabel = ContractLabel(bytes)
       /\ bytes = [exp |-> 1, hi |-> 1, lo |-> 0] => sizeLabel = <<"1", " ", "K", "B">>
       /\ bytes = [exp |-> 1, hi |-> 1, lo |-> 512] =>
              sizeLabel = <<"1", ".", "5", " ", "K", "B">>
       /\ bytes = [exp |-> 2, hi |-> 10, lo |-> 0] =>
              sizeLabel = <<"1", "0", " ", "M", "B">>

\* the steps of the fallback path of startCamera
OverconstrainedStep == lastOp'.op = "gumReject" /\ lastOp'.alert = alertFor("OverconstrainedError")
RetryResolvedStep == gumFallback' = gumFallback - 1 /\ nextStream' = nextStream + 1
RetryFailedStep == lastOp'.op = "fallbackReject"

\* C16: when getUserMedia rejects with OverconstrainedError it is called once
\* more, with {video: true}; if that call resolves, the session is Live with
\* the fallback stream retained; if it rejects, the session is Idle (modal
\* closed, no stream retained), the failure is alerted and no further call is
\* made.
C16_FallbackOnce ==
    [][ mounted =>
          /\ OverconstrainedStep =>
                (gumFallback' = gumFallback + 1 /\ gumPrimary' = gumPrimary - 1)
          /\ RetryResolvedStep =>
                /\ showCamera'
                /\ stream' = nextStream' /\ stream' \in openStreams'
                /\ gumPrimary' = gumPrimary
          /\ RetryFailedStep =>
                /\ ~showCamera' /\ stream' = NoStream
                /\ lastOp'.alert = "Unable to access camera with any settings"
                /\ gumPrimary' = gumPrimary /\ gumFallback' = gumFallback - 1 ]_vars

DeniedAlerts == { alertFor("NotAllowedError"), alertFor("NotFoundError"),
                  alertFor("NotSupportedError") }

\* C17: when getUserMedia rejects with NotAllowedError, NotFoundError or
\* NotSupportedError the session is deactivated (modal closed, no stream
\* retained), getUserMedia is not called again, and the three errors are
\* alerted with three different messages.
C17_DeniedDeactivates ==
    /\ [](Cardinality(DeniedAlerts) = 3 /\ "" \notin DeniedAlerts)
    /\ [][ (mounted /\ lastOp'.op = "gumReject" /\ lastOp'.alert \in DeniedAlerts) =>
            /\ ~showCamera' /\ stream' = NoStream
            /\ gumPrimary' = gumPrimary - 1 /\ gumFallback' = gumFallback ]_vars

\* C18: on a host without navigator.mediaDevices.getUserMedia startCamera
\* alerts that the camera is not supported and the session stays Idle: it is
\* never marked active and no acquisition is ever started. On a host with it,
\* startCamera marks the session active while its acquisition is in flight.
C18_CapabilityCheckedFirst ==
    /\ [](~hasMediaDevices =>
            (~showCamera /\ stream = NoStream /\ gumPrimary = 0 /\ gumFallback = 0
             /\ nextStream = 0))
    /\ [][ /\ lastOp'.op = "start" =>
               /\ ~hasMediaDevices
               /\ lastOp'.alert = "Camera access is not supported"
               /\ UNCHANGED cameraVars
           /\ gumPrimary' = gumPrimary + 1 =>
               /\ hasMediaDevices
               /\ showCamera'
               /\ nextStream' = nextStream /\ stream' = stream ]_vars

\* C18 witness: startCamera was called on a host without the capability.
C18_Witness ==
    /\ ~hasMediaDevices
    /\ lastOp.op = "start"
    /\ lastOp.alert = "Camera access is not supported"
    /\ ~showCamera
    /\ gumPrimary = 0

\* C19: when the encoder delivers the image of a capture made from Live,
\* exactly one file, the synthesized image/jpeg file, is handed to handleFiles,
\* and then the session is Idle: the modal is closed, the tracks of the stream
\* the capture was made from are stopped, and no stream is retained.
C19_CaptureDeliversAndCloses ==
    [][ (mounted /\ lastOp'.op = "captured") =>
          \E c \in BagToSet(blobs) :
             /\ blobs' = blobs (-) SetToBag({c})
             /\ Len(lastOp'.batch) = 1
             /\ lastOp'.batch[1] \in CaptureFiles
             /\ lastOp'.batch[1].type = ImageJpeg
             /\ c.seenStream # NoStream
             /\ c.seenStream \notin openStreams'
             /\ ~showCamera'
             /\ stream' = NoStream ]_vars

\* C19 witness: a capture was delivered: its file is pending, the session is
\* Idle and no stream has live tracks.
C19_Witness ==
    /\ mounted
    /\ lastOp.op = "captured"
    /\ Len(files) = 1 /\ files[1].file = CaptureFile
    /\ ~showCamera
    /\ stream = NoStream
    /\ nextStream = 1
    /\ openStreams = {}

\* C20: at most one camera session is under way (an acquisition in flight or
\* an acquired stream with live tracks) and at most one acquired stream has
\* live tracks, whatever the order of start, cancel, capture and resolutions.
C20_OneSessionOneStream ==
    /\ Cardinality(openStreams) <= 1
    /\ gumPrimary + gumFallback + Cardinality(openStreams) <= 1

\* C21: while the component is mounted, the preview handle of every pending
\* entry (the handle the file list renders) has not been released.
C21_NoPreviewReadAfterRelease ==
    mounted => \A k \in DOMAIN files : revoked[files[k].preview] = 0

\* C21 witness: of two entries one was removed and its handle released; the
\* other is still pending with a live handle.
C21_Witness ==
    /\ mounted
    /\ lastOp.op = "remove"
    /\ nextHandle = 2
    /\ Len(files) = 1
    /\ revoked[files[1].preview] = 0
    /\ \E h \in 1..nextHandle : h # files[1].preview /\ revoked[h] = 1

\* C22: when handleFiles rejects the file of a delivered capture (its type
\* matches no accepted pattern, it is larger than maxFileSize, or the closure
\* sees no slot left), the pending set and the preview handles stay as they
\* were and the session still ends Idle: the modal is closed, the tracks of
\* the stream the capture was made from are stopped, no stream is retained.
C22_RejectedCaptureStillCloses ==
    [][ (mounted /\ lastOp'.op = "captured") =>
          \E c \in BagToSet(blobs) :
             LET file == lastOp'.batch[1] IN
             /\ blobs' = blobs (-) SetToBag({c})
             /\ lastOp'.warns # <<>> <=>
                   \/ ~TypeAccepted(file.type)
                   \/ file.size > maxFileSize
                   \/ maxFiles - c.seenLen <= 0
             /\ lastOp'.warns # <<>> =>
                   /\ files' = files
                   /\ nextHandle' = nextHandle /\ revoked' = revoked
                   /\ c.seenStream \notin openStreams'
                   /\ ~showCamera'
                   /\ stream' = NoStream ]_vars

\* C22 witness: a capture was delivered where only image/png is accepted: the
\* file was rejected for its type, nothing is pending and the session is Idle.
C22_Witness ==
    /\ mounted
    /\ lastOp.op = "captured"
    /\ Warned("type", CaptureFile)
    /\ files = <<>>
    /\ nextStream = 1
    /\ ~showCamera
    /\ stream = NoStream
    /\ openStreams = {}

\* C23: a call of handleUpload with an empty pending set does nothing: onUpload
\* is not called and isUploading stays false; with a non-empty pending set a
\* supplied onUpload is called once, with the pending set as it is at the call.
C23_UploadOnlyWhenNonEmpty ==
    /\ [](uploadPending > 0 => uploadArg # <<>>)
    /\ [][ mounted =>
            /\ (lastOp'.op = "upload" /\ files = <<>>) =>
                  /\ lastOp'.alert = ""
                  /\ ~isUploading /\ ~isUploading'
                  /\ uploadPending' = uploadPending /\ uploadArg' = uploadArg
            /\ (lastOp'.op = "upload" /\ lastOp'.alert # "") => files # <<>>
            /\ uploadPending' > uploadPending =>
                  /\ files # <<>>
                  /\ uploadPending' = uploadPending + 1
                  /\ uploadArg' = files
                  /\ files' = files
                  /\ isUploading' ]_vars

\* C23 witness: upload was triggered with one pending entry: onUpload holds
\* that list and has not settled.
C23_Witness ==
    /\ mounted
    /\ Len(files) = 1
    /\ uploadPending = 1
    /\ uploadArg = files
    /\ isUploading

\* C24: while the component is mounted isUploading is true exactly while an
\* onUpload call is unsettled, and false again once the call has resolved or
\* thrown; at most one onUpload call is unsettled at a time; and while one is,
\* no entry leaves the pending set.
C24_UploadingFlagDiscipline ==
    /\ [](mounted => (isUploading <=> uploadPending > 0))
    /\ [](uploadPending <= 1)
    /\ [][ /\ (mounted /\ uploadPending' < uploadPending) => ~isUploading'
           /\ (mounted /\ lastOp'.op = "upload") => ~isUploading'
           /\ (uploadPending > 0 \/ uploadPending' > 0) =>
                 /\ Len(files') >= Len(files)
                 /\ SubSeq(files', 1, Len(files)) = files ]_vars

\* C24 witness: an onUpload call that was given two entries has settled while
\* the component was mounted: both are still pending and the flag is false.
C24_Witness ==
    /\ mounted
    /\ lastOp.op = "uploadSettled"
    /\ Len(files) = 2
    /\ uploadPending = 0
    /\ ~isUploading
    /\ \A h \in 1..nextHandle : revoked[h] = 0

====
